---- MODULE Spec2Model ----
(***************************************************************************)
(* libnmap.process.NmapProcess: one runner object, the child processes it  *)
(* spawns, the two stream_reader threads of each child and the caller's    *)
(* thread executing run() / sudo_run() / __wait().                          *)
(***************************************************************************)
EXTENDS Integers, Sequences, FiniteSets, TLC

VARIABLES
    self,           \* the NmapProcess instance: its attributes
    child,          \* child[r]: the process spawned by the r-th run() and its two drains
    returncode,     \* what poll() on self.__nmap_proc gives: None, or the child's return code
    pc,             \* where the caller's thread is: idle, spawn, loop, get, callback, resolve, errget
    call,           \* the public method in progress or last ended: none, run, sudo_run
    calls,          \* number of run()/sudo_run() calls made so far
    runs,           \* number of those that reached _run_init
    thread_stream,  \* __wait's local: <<>> for '', <<u>> for the unit last pulled
    outcome,        \* how the last call ended: none, returned, or the exception raised
    retval,         \* value returned by the last call that returned
    nOut,           \* stdout lines written so far by all children
    nErr,           \* stderr lines written so far by all children
    launched,       \* argv the current run's child was spawned with, <<>> before the spawn
    killed,         \* whether a signal ended the current run's child while run() was in flight
    polled,         \* what poll() returned after the current run's loop
    written,        \* stdout lines written so far by the current run's child
    consumed,       \* units pulled from the stdout queue by the current run's loop
    cbLog,          \* units handed to the event callback by the current run, in call order
    errAtExit       \* content of the stderr queue when the current run's loop exited

vars == <<self, child, returncode, pc, call, calls, runs, thread_stream, outcome, retval,
          nOut, nErr, launched, killed, polled, written, consumed, cbLog, errAtExit>>

---------------------------------------------------------------------------
\* Bounds of the model.
MaxCalls == 2   \* calls of run()/sudo_run()
MaxLines == 2   \* lines written by all children together, to stdout and stderr
PipeCap  == 1   \* lines an operating-system pipe holds before the writer blocks
MaxFeed  == 3   \* chunks handed to __process_event when it is exercised alone

Runs == 1..MaxCalls

---------------------------------------------------------------------------
\* Lifecycle states, (self.DONE, self.READY, self.RUNNING, self.CANCELLED,
\* self.FAILED) = range(5).
DONE      == 0
READY     == 1
RUNNING   == 2
CANCELLED == 3
FAILED    == 4

\* Python's None and an int n as values of one TLA+ sort.
None   == <<>>
PyInt(n) == <<n>>

\* Return codes a child can end with: success, an error exit, and the negative
\* signal number subprocess reports for a child ended by a signal (SIGKILL).
ExitCodes == {0, 1}
KilledRc  == 0 - 9

---------------------------------------------------------------------------
\* One stdout line as pulldom sees it: the START_ELEMENT events the parser
\* delivers, in order, each with its attributes; feedErr when expat rejects the
\* text while it is fed (no event is delivered), closeErr when the text ends
\* inside an open element (the error comes after the events).
Elem(n, a) == [name |-> n, attrs |-> a]
NoAttrs == [x \in {} |-> 0]

Chunk(k) ==
    CASE k = "P42"     -> [feedErr |-> FALSE, closeErr |-> FALSE,
                           elems |-> <<Elem("taskprogress", [percent |-> 42, etc |-> 90])>>]
      [] k = "P55"     -> [feedErr |-> FALSE, closeErr |-> FALSE,
                           elems |-> <<Elem("taskprogress", [percent |-> 55, etc |-> 60])>>]
      [] k = "RUN"     -> [feedErr |-> FALSE, closeErr |-> TRUE,
                           elems |-> <<Elem("nmaprun", [start |-> 1000, version |-> "7.0"])>>]
      [] k = "FIN"     -> [feedErr |-> FALSE, closeErr |-> FALSE,
                           elems |-> <<Elem("finished", [time |-> 2000, elapsed |-> "12.5",
                                                         summary |-> "done"])>>]
      [] k = "HOST"    -> [feedErr |-> FALSE, closeErr |-> FALSE,
                           elems |-> <<Elem("host", [starttime |-> 1500])>>]
      [] k = "BARE"    -> [feedErr |-> FALSE, closeErr |-> FALSE,
                           elems |-> <<Elem("taskprogress", NoAttrs)>>]
      [] k = "JUNK"    -> [feedErr |-> TRUE, closeErr |-> FALSE, elems |-> <<>>]
      [] k = "CUT"     -> [feedErr |-> FALSE, closeErr |-> TRUE, elems |-> <<>>]
      [] k = "P_NOETC" -> [feedErr |-> FALSE, closeErr |-> FALSE,
                           elems |-> <<Elem("taskprogress", [percent |-> 42])>>]
      [] k = "RUN_NOV" -> [feedErr |-> FALSE, closeErr |-> FALSE,
                           elems |-> <<Elem("nmaprun", [start |-> 1000])>>]
      [] k = "FIN_NOS" -> [feedErr |-> FALSE, closeErr |-> FALSE,
                           elems |-> <<Elem("finished", [time |-> 2000, elapsed |-> "12.5"])>>]
      [] k = "P42_P55" -> [feedErr |-> FALSE, closeErr |-> FALSE,
                           elems |-> <<Elem("task", [n |-> 1]),
                                       Elem("taskprogress", [percent |-> 42, etc |-> 90]),
                                       Elem("taskprogress", [percent |-> 55, etc |-> 60])>>]

ChunkKinds == {"P42", "P55", "RUN", "FIN", "HOST", "BARE", "JUNK", "CUT",
               "P_NOETC", "RUN_NOV", "FIN_NOS", "P42_P55"}

\* The lines the modelled children write to stdout: the nmaprun header comes
\* first or not at all, progress markers and unparseable text at any time.
OutKinds(first) == IF first THEN {"RUN", "P42", "JUNK"} ELSE {"P42", "JUNK"}

\* The lines the modelled children write to stderr.
ErrKinds == {"ERR"}

\* A unit in a pipe or queue: the line's text, the child that wrote it and the
\* line's number among the lines written to that stream.
Unit(r, k, n) == [run |-> r, k |-> k, n |-> n]

---------------------------------------------------------------------------
\* NmapProcess.__init__: the attributes after construction.  nmap_version and
\* the two queues are first created by _run_init; "" and NoQueue stand for "no
\* such attribute yet".
SudoPrefix == "/usr/bin/sudo -u root"

get_command_line(s) ==
    <<s.sudo_run, "/usr/bin/nmap", "-oX - -vvv --stats-every 2s",
      s.nmap_dynamic_options, s.nmap_targets>>

\* shlex.split of the formatted command line: an empty leading field leaves no token.
shlex_split(cmdline) == SelectSeq(cmdline, LAMBDA t : t # "")

\* A Queue object: its identity and its items.  A stream_reader thread holds the
\* identity of the queue it was handed; items put on a queue object the runner
\* has dropped are read by nobody and are not kept.
NoQueue == [id |-> 0, items |-> <<>>]

init(event_callback) ==
    LET s0 == [sudo_run |-> "", nmap_dynamic_options |-> "-sT",
               nmap_targets |-> "127.0.0.1"]
    IN  [nmap_proc |-> 0, nmap_rc |-> PyInt(0), sudo_run |-> "",
         nmap_dynamic_options |-> "-sT", nmap_targets |-> "127.0.0.1",
         nmap_command_line |-> get_command_line(s0),
         nmap_event_callback |-> event_callback,
         state |-> READY, starttime |-> 0, endtime |-> 0, progress |-> 0, etc |-> 0,
         elapsed |-> "", summary |-> "", nmap_version |-> "",
         io_queue |-> NoQueue, ioerr_queue |-> NoQueue,
         stdout |-> <<>>, stderr |-> <<>>]

\* Variant: the queue object of the previous run is kept instead of a new one.
Queue_reused(s, n) == IF s.io_queue.id = 0 THEN [id |-> n, items |-> <<>>] ELSE s.io_queue

\* Queue(): a new, empty queue object; n counts the runs so far.
Queue(s, n) == [id |-> n, items |-> <<>>]

\* Variant: _run_init without self.state = self.READY.
run_init_keeps_state(s, n) ==
    [s EXCEPT !.nmap_proc = 0, !.nmap_rc = PyInt(0 - 1),
              !.nmap_command_line = get_command_line(s),
              !.progress = 0, !.etc = 0,
              !.starttime = 0, !.endtime = 0, !.elapsed = "", !.summary = "",
              !.nmap_version = "",
              !.io_queue = [id |-> n, items |-> <<>>],
              !.ioerr_queue = [id |-> n, items |-> <<>>],
              !.stdout = <<>>, !.stderr = <<>>]

\* Variant: _run_init without self.stderr = ''.
run_init_keeps_stderr(s, n) ==
    [s EXCEPT !.nmap_proc = 0, !.nmap_rc = PyInt(0 - 1),
              !.nmap_command_line = get_command_line(s),
              !.state = READY, !.progress = 0, !.etc = 0,
              !.starttime = 0, !.endtime = 0, !.elapsed = "", !.summary = "",
              !.nmap_version = "",
              !.io_queue = [id |-> n, items |-> <<>>],
              !.ioerr_queue = [id |-> n, items |-> <<>>],
              !.stdout = <<>>]

\* NmapProcess._run_init, n being the number of this run.
run_init(s, n) ==
    [s EXCEPT !.nmap_proc = 0, !.nmap_rc = PyInt(0 - 1),
              !.nmap_command_line = get_command_line(s),
              !.state = READY, !.progress = 0, !.etc = 0,
              !.starttime = 0, !.endtime = 0, !.elapsed = "", !.summary = "",
              !.nmap_version = "",
              !.io_queue = Queue(s, n), !.ioerr_queue = Queue(s, n),
              !.stdout = <<>>, !.stderr = <<>>]

---------------------------------------------------------------------------
\* NmapProcess.__process_event.  An attribute lookup that fails raises KeyError,
\* which ends the walk; every exception is swallowed and rval returned.
HasAttr(e, a) == a \in DOMAIN e.attrs

Stop(s, rv) == [self |-> s, rval |-> rv, raised |-> TRUE]
Go(s, rv)   == [self |-> s, rval |-> rv, raised |-> FALSE]

\* Variant: a progress marker fills percent and etc only while they are unset.
start_element_first_wins(s, rv, e) ==
    IF e.name = "taskprogress" /\ DOMAIN e.attrs # {} THEN
        IF ~HasAttr(e, "percent") \/ ~HasAttr(e, "etc") THEN Stop(s, rv)
        ELSE Go([s EXCEPT !.progress = IF @ = 0 THEN e.attrs.percent ELSE @,
                          !.etc = IF @ = 0 THEN e.attrs.etc ELSE @], TRUE)
    ELSE IF e.name = "nmaprun" /\ DOMAIN e.attrs # {} THEN
        IF ~HasAttr(e, "start") THEN Stop(s, rv)
        ELSE IF ~HasAttr(e, "version")
             THEN Stop([s EXCEPT !.starttime = e.attrs.start], rv)
        ELSE Go([s EXCEPT !.starttime = e.attrs.start,
                          !.nmap_version = e.attrs.version], TRUE)
    ELSE IF e.name = "finished" /\ DOMAIN e.attrs # {} THEN
        IF ~HasAttr(e, "time") THEN Stop(s, rv)
        ELSE IF ~HasAttr(e, "elapsed")
             THEN Stop([s EXCEPT !.endtime = e.attrs.time], rv)
        ELSE IF ~HasAttr(e, "summary")
             THEN Stop([s EXCEPT !.endtime = e.attrs.time,
                                 !.elapsed = e.attrs.elapsed], rv)
        ELSE Go([s EXCEPT !.endtime = e.attrs.time, !.elapsed = e.attrs.elapsed,
                          !.summary = e.attrs.summary], TRUE)
    ELSE Go(s, rv)

\* The body of the loop over the parser's events, for one START_ELEMENT.
start_element(s, rv, e) ==
    IF e.name = "taskprogress" /\ DOMAIN e.attrs # {} THEN
        IF ~HasAttr(e, "percent") \/ ~HasAttr(e, "etc") THEN Stop(s, rv)
        ELSE Go([s EXCEPT !.progress = e.attrs.percent, !.etc = e.attrs.etc], TRUE)
    ELSE IF e.name = "nmaprun" /\ DOMAIN e.attrs # {} THEN
        IF ~HasAttr(e, "start") THEN Stop(s, rv)
        ELSE IF ~HasAttr(e, "version")
             THEN Stop([s EXCEPT !.starttime = e.attrs.start], rv)
        ELSE Go([s EXCEPT !.starttime = e.attrs.start,
                          !.nmap_version = e.attrs.version], TRUE)
    ELSE IF e.name = "finished" /\ DOMAIN e.attrs # {} THEN
        IF ~HasAttr(e, "time") THEN Stop(s, rv)
        ELSE IF ~HasAttr(e, "elapsed")
             THEN Stop([s EXCEPT !.endtime = e.attrs.time], rv)
        ELSE IF ~HasAttr(e, "summary")
             THEN Stop([s EXCEPT !.endtime = e.attrs.time,
                                 !.elapsed = e.attrs.elapsed], rv)
        ELSE Go([s EXCEPT !.endtime = e.attrs.time, !.elapsed = e.attrs.elapsed,
                          !.summary = e.attrs.summary], TRUE)
    ELSE Go(s, rv)

RECURSIVE walk(_, _, _)
walk(s, rv, elems) ==
    IF elems = <<>> THEN [self |-> s, rval |-> rv]
    ELSE LET r == start_element(s, rv, Head(elems))
         IN  IF r.raised THEN [self |-> r.self, rval |-> r.rval]
             ELSE walk(r.self, r.rval, Tail(elems))

process_event(s, eventdata) ==
    LET c == Chunk(eventdata.k)
    IN  IF c.feedErr THEN [self |-> s, rval |-> FALSE]
        ELSE walk(s, FALSE, c.elems)

---------------------------------------------------------------------------
\* NmapProcess.__wait, its pieces.

\* Variant: the "not" before self.__io_queue.empty() is missing.
wait_condition_inverted(rc, queue) == rc = None \/ queue.items = <<>>

\* while self.__nmap_proc.poll() is None or not self.__io_queue.empty()
wait_condition(rc, queue) == rc = None \/ queue.items # <<>>

\* Variant: the callback is called for every unit, recognized or not.
callback_always(s, e) == s.nmap_event_callback

\* if self._nmap_event_callback and e
callback_due(s, e) == s.nmap_event_callback /\ e

\* Variant: DONE without self.__progress = 100.
wait_resolve_unforced(s, rc) ==
    IF rc = None THEN [s EXCEPT !.nmap_rc = rc, !.state = CANCELLED]
    ELSE IF rc = PyInt(0) THEN [s EXCEPT !.nmap_rc = rc, !.state = DONE]
    ELSE [s EXCEPT !.nmap_rc = rc, !.state = FAILED]

\* Variant: "if not self.rc" for the success test, tried first: None counts as 0.
wait_resolve_falsy(s, rc) ==
    IF rc = None \/ rc = PyInt(0)
    THEN [s EXCEPT !.nmap_rc = rc, !.state = DONE, !.progress = 100]
    ELSE [s EXCEPT !.nmap_rc = rc, !.state = FAILED]

\* The post-loop classification of the polled return code.
wait_resolve(s, rc) ==
    IF rc = None THEN [s EXCEPT !.nmap_rc = rc, !.state = CANCELLED]
    ELSE IF rc = PyInt(0) THEN [s EXCEPT !.nmap_rc = rc, !.state = DONE, !.progress = 100]
    ELSE [s EXCEPT !.nmap_rc = rc, !.state = FAILED]

\* Variant: the newest unit of the queue is taken instead of the oldest.
read_stderr_newest(s) ==
    [s EXCEPT !.stderr = <<s.ioerr_queue.items[Len(s.ioerr_queue.items)]>>,
              !.ioerr_queue.items = SubSeq(@, 1, Len(@) - 1)]

\* self.stderr = self.__ioerr_queue.get(timeout=2), a unit being there.
read_stderr(s) ==
    [s EXCEPT !.stderr = <<Head(s.ioerr_queue.items)>>,
              !.ioerr_queue.items = Tail(@)]

\* sudo_run's last statements, reached only when run() returned.
sudo_clear(s, c) == IF c = "sudo_run" THEN [s EXCEPT !.sudo_run = ""] ELSE s

---------------------------------------------------------------------------
\* The child processes.  st: none (never spawned), running, exited.  outPipe and
\* errPipe are the lines its pipes hold, not yet read by the stream_reader
\* threads; wrote tells whether it has written to stdout yet; outDst and errDst the identities of the queue objects those threads
\* were handed when they were started.
NoChild ==
    [st |-> "none", wrote |-> FALSE, outPipe |-> <<>>, errPipe |-> <<>>,
     outDst |-> 0, errDst |-> 0]

Init ==
    /\ \E cb \in BOOLEAN : self = init(cb)
    /\ child = [r \in Runs |-> NoChild]
    /\ returncode = None
    /\ pc = "idle"
    /\ call = "none"
    /\ calls = 0
    /\ runs = 0
    /\ thread_stream = <<>>
    /\ outcome = "none"
    /\ retval = None
    /\ nOut = 0
    /\ nErr = 0
    /\ launched = <<>>
    /\ killed = FALSE
    /\ polled = None
    /\ written = <<>>
    /\ consumed = <<>>
    /\ cbLog = <<>>
    /\ errAtExit = <<>>

history == <<launched, killed, polled, written, consumed, cbLog, errAtExit>>
counts  == <<nOut, nErr>>

---------------------------------------------------------------------------
\* The caller's thread.

\* run() and sudo_run() up to and including _run_init.
Begin(method) ==
    /\ pc = "idle"
    /\ calls < MaxCalls
    /\ calls' = calls + 1
    /\ runs' = runs + 1
    /\ call' = method
    /\ self' = run_init(IF method = "sudo_run"
                        THEN [self EXCEPT !.sudo_run = SudoPrefix] ELSE self, runs + 1)
    /\ returncode' = None
    /\ pc' = "spawn"
    /\ outcome' = "none"
    /\ retval' = None
    /\ launched' = <<>>
    /\ killed' = FALSE
    /\ polled' = None
    /\ written' = <<>>
    /\ consumed' = <<>>
    /\ cbLog' = <<>>
    /\ errAtExit' = <<>>
    /\ UNCHANGED <<child, thread_stream, counts>>

Run == Begin("run")

SudoRun == Begin("sudo_run")

\* Variant: self.__sudo_run is assigned before the two lookups.
SudoRunRaises_prefixed ==
    /\ pc = "idle"
    /\ calls < MaxCalls
    /\ calls' = calls + 1
    /\ \E e \in {"KeyError", "EnvironmentError"} : outcome' = e
    /\ call' = "sudo_run"
    /\ self' = [self EXCEPT !.sudo_run = SudoPrefix]
    /\ UNCHANGED <<child, returncode, pc, runs, thread_stream, retval, history, counts>>

\* sudo_run: pwd.getpwnam raises KeyError, or _whereis("sudo") finds nothing.
SudoRunRaises ==
    /\ pc = "idle"
    /\ calls < MaxCalls
    /\ calls' = calls + 1
    /\ \E e \in {"KeyError", "EnvironmentError"} : outcome' = e
    /\ call' = "sudo_run"
    /\ UNCHANGED <<self, child, returncode, pc, runs, thread_stream, retval, history, counts>>

\* subprocess.Popen succeeds, the two threads are started, state = RUNNING, and
\* __wait begins with thread_stream = ''.
Spawn ==
    /\ pc = "spawn"
    /\ child' = [child EXCEPT ![runs] =
                    [NoChild EXCEPT !.st = "running",
                                    !.outDst = self.io_queue.id,
                                    !.errDst = self.ioerr_queue.id]]
    /\ launched' = shlex_split(self.nmap_command_line)
    /\ self' = [self EXCEPT !.nmap_proc = runs, !.state = RUNNING]
    /\ thread_stream' = <<>>
    /\ pc' = "loop"
    /\ UNCHANGED <<returncode, call, calls, runs, outcome, retval, killed, polled, written,
                   consumed, cbLog, errAtExit, counts>>

\* Variant: the OSError is re-raised without self.state = self.FAILED.
SpawnRaises_unmarked ==
    /\ pc = "spawn"
    /\ outcome' = "OSError"
    /\ pc' = "idle"
    /\ UNCHANGED <<self, child, returncode, call, calls, runs, thread_stream, retval,
                   history, counts>>

\* subprocess.Popen raises OSError: state = FAILED and the error is re-raised,
\* through sudo_run as well.
SpawnRaises ==
    /\ pc = "spawn"
    /\ self' = [self EXCEPT !.state = FAILED]
    /\ outcome' = "OSError"
    /\ pc' = "idle"
    /\ UNCHANGED <<child, returncode, call, calls, runs, thread_stream, retval, history, counts>>

\* The while condition of __wait.
LoopTest ==
    /\ pc = "loop"
    /\ IF wait_condition(returncode, self.io_queue)
       THEN pc' = "get" /\ UNCHANGED errAtExit
       ELSE pc' = "resolve" /\ errAtExit' = self.ioerr_queue.items
    /\ UNCHANGED <<self, child, returncode, call, calls, runs, thread_stream, outcome, retval,
                   launched, killed, polled, written, consumed, cbLog, counts>>

\* Variant: self.stdout += thread_stream comes before the callback.
GetUnit_append_first ==
    /\ pc = "get"
    /\ self.io_queue.items # <<>>
    /\ LET u  == Head(self.io_queue.items)
           pe == process_event([self EXCEPT !.io_queue.items = Tail(@)], u)
       IN  /\ thread_stream' = <<u>>
           /\ consumed' = Append(consumed, u)
           /\ self' = [pe.self EXCEPT !.stdout = Append(@, u)]
           /\ IF callback_due(self, pe.rval)
              THEN cbLog' = Append(cbLog, u) /\ pc' = "callback"
              ELSE cbLog' = cbLog /\ pc' = "loop"
    /\ UNCHANGED <<child, returncode, call, calls, runs, outcome, retval, launched, killed,
                   polled, written, errAtExit, counts>>

\* io_queue.get(timeout=1) returns a unit: __process_event, then the callback
\* when due, else the unit is appended to stdout.
GetUnit ==
    /\ pc = "get"
    /\ self.io_queue.items # <<>>
    /\ LET u  == Head(self.io_queue.items)
           pe == process_event([self EXCEPT !.io_queue.items = Tail(@)], u)
       IN  /\ thread_stream' = <<u>>
           /\ consumed' = Append(consumed, u)
           /\ IF callback_due(self, pe.rval)
              THEN /\ self' = pe.self
                   /\ cbLog' = Append(cbLog, u)
                   /\ pc' = "callback"
              ELSE /\ self' = [pe.self EXCEPT !.stdout = Append(@, u)]
                   /\ cbLog' = cbLog
                   /\ pc' = "loop"
    /\ UNCHANGED <<child, returncode, call, calls, runs, outcome, retval, launched, killed,
                   polled, written, errAtExit, counts>>

\* The callback returns: self.stdout += thread_stream.
CallbackReturns ==
    /\ pc = "callback"
    /\ self' = [self EXCEPT !.stdout = Append(@, thread_stream[1])]
    /\ pc' = "loop"
    /\ UNCHANGED <<child, returncode, call, calls, runs, thread_stream, outcome, retval,
                   history, counts>>

\* Variant: after Empty the loop body goes on to self.stdout += thread_stream
\* with the unit of the previous round.
GetTimeout_reappend ==
    /\ pc = "get"
    /\ self.io_queue.items = <<>>
    /\ self' = [self EXCEPT !.stdout = @ \o thread_stream]
    /\ pc' = "loop"
    /\ UNCHANGED <<child, returncode, call, calls, runs, thread_stream, outcome, retval,
                   history, counts>>

\* io_queue.get(timeout=1) raises Empty: pass.
GetTimeout ==
    /\ pc = "get"
    /\ self.io_queue.items = <<>>
    /\ pc' = "loop"
    /\ UNCHANGED <<self, child, returncode, call, calls, runs, thread_stream, outcome, retval,
                   history, counts>>

\* KeyboardInterrupt during the bounded wait: break.
Interrupt ==
    /\ pc = "get"
    /\ pc' = "resolve"
    /\ errAtExit' = self.ioerr_queue.items
    /\ UNCHANGED <<self, child, returncode, call, calls, runs, thread_stream, outcome, retval,
                   launched, killed, polled, written, consumed, cbLog, counts>>

\* After the loop: poll, classify; DONE and CANCELLED return at once, FAILED goes
\* on to read the stderr queue.  thread_stream ends with __wait.
Resolve ==
    /\ pc = "resolve"
    /\ LET s == wait_resolve(self, returncode)
       IN  IF s.state = FAILED
           THEN /\ self' = s
                /\ pc' = "errget"
                /\ UNCHANGED <<outcome, retval, thread_stream>>
           ELSE /\ self' = sudo_clear(s, call)
                /\ pc' = "idle"
                /\ outcome' = "returned"
                /\ retval' = s.nmap_rc
                /\ thread_stream' = <<>>
    /\ polled' = returncode
    /\ UNCHANGED <<child, returncode, call, calls, runs, launched, killed, written, consumed,
                   cbLog, errAtExit, counts>>

\* ioerr_queue.get(timeout=2) returns a unit; __wait and run return self.rc.
ErrGet ==
    /\ pc = "errget"
    /\ self.ioerr_queue.items # <<>>
    /\ self' = sudo_clear(read_stderr(self), call)
    /\ pc' = "idle"
    /\ outcome' = "returned"
    /\ retval' = self.nmap_rc
    /\ thread_stream' = <<>>
    /\ UNCHANGED <<child, returncode, call, calls, runs, history, counts>>

\* ioerr_queue.get(timeout=2) raises Empty, which nothing catches.
ErrGetRaises ==
    /\ pc = "errget"
    /\ self.ioerr_queue.items = <<>>
    /\ pc' = "idle"
    /\ outcome' = "Empty"
    /\ thread_stream' = <<>>
    /\ UNCHANGED <<self, child, returncode, call, calls, runs, retval, history, counts>>

---------------------------------------------------------------------------
\* The children and their stream_reader threads.  A child is followed while it
\* is the child of the latest run: once _run_init has dropped its Popen object
\* nothing the runner does depends on it any more, and only what its pipes
\* already hold is still delivered by its threads.
Followed(r) == r = runs /\ child[r].st = "running"

ChildWritesOut(r) ==
    /\ Followed(r)
    /\ nOut + nErr < MaxLines
    /\ Len(child[r].outPipe) < PipeCap
    /\ \E k \in OutKinds(~child[r].wrote) :
          LET u == Unit(r, k, nOut + 1)
          IN  /\ child' = [child EXCEPT ![r].outPipe = Append(@, u), ![r].wrote = TRUE]
              /\ written' = Append(written, u)
    /\ nOut' = nOut + 1
    /\ UNCHANGED <<self, returncode, pc, call, calls, runs, thread_stream, outcome, retval,
                   nErr, launched, killed, polled, consumed, cbLog, errAtExit>>

ChildWritesErr(r) ==
    /\ Followed(r)
    /\ nOut + nErr < MaxLines
    /\ Len(child[r].errPipe) < PipeCap
    /\ \E k \in ErrKinds :
          child' = [child EXCEPT ![r].errPipe = Append(@, Unit(r, k, nErr + 1))]
    /\ nErr' = nErr + 1
    /\ UNCHANGED <<self, returncode, pc, call, calls, runs, thread_stream, outcome, retval,
                   nOut, history>>

\* The child ends with return code rc; poll() on the Popen object the runner
\* holds for it reports rc from now on.
ChildEnds(r, rc) ==
    /\ Followed(r)
    /\ child' = [child EXCEPT ![r].st = "exited"]
    /\ returncode' = PyInt(rc)

ChildExits(r) ==
    /\ \E code \in ExitCodes : ChildEnds(r, code)
    /\ UNCHANGED <<self, pc, call, calls, runs, thread_stream, outcome, retval, history, counts>>

\* run() is between the spawn and the poll that follows the loop.
InFlight == pc \in {"loop", "get", "callback", "resolve"}

\* Another process kills the child with a signal.
ChildKilled(r) ==
    /\ ChildEnds(r, KilledRc)
    /\ killed' = (killed \/ InFlight)
    /\ UNCHANGED <<self, pc, call, calls, runs, thread_stream, outcome, retval,
                   launched, polled, written, consumed, cbLog, errAtExit, counts>>

\* queue.put(streamline) by a thread that was handed the queue with identity dst.
put(queue, dst, streamline) ==
    IF queue.id = dst THEN [queue EXCEPT !.items = Append(@, streamline)] ELSE queue

\* stream_reader on the child's stdout: one readline, one put.
StreamReaderOut(r) ==
    /\ child[r].outPipe # <<>>
    /\ self' = [self EXCEPT !.io_queue = put(@, child[r].outDst, Head(child[r].outPipe))]
    /\ child' = [child EXCEPT ![r].outPipe = Tail(@)]
    /\ UNCHANGED <<returncode, pc, call, calls, runs, thread_stream, outcome, retval,
                   history, counts>>

\* stream_reader on the child's stderr.
StreamReaderErr(r) ==
    /\ child[r].errPipe # <<>>
    /\ self' = [self EXCEPT !.ioerr_queue = put(@, child[r].errDst, Head(child[r].errPipe))]
    /\ child' = [child EXCEPT ![r].errPipe = Tail(@)]
    /\ UNCHANGED <<returncode, pc, call, calls, runs, thread_stream, outcome, retval,
                   history, counts>>

WritesOut == \E r \in Runs : ChildWritesOut(r)
WritesErr == \E r \in Runs : ChildWritesErr(r)
Exits     == \E r \in Runs : ChildExits(r)
Killed    == \E r \in Runs : ChildKilled(r)
ReadsOut  == \E r \in Runs : StreamReaderOut(r)
ReadsErr  == \E r \in Runs : StreamReaderErr(r)

Next ==
    \/ Run
    \/ SudoRun
    \/ SudoRunRaises
    \/ Spawn
    \/ SpawnRaises
    \/ LoopTest
    \/ GetUnit
    \/ CallbackReturns
    \/ GetTimeout
    \/ Interrupt
    \/ Resolve
    \/ ErrGet
    \/ ErrGetRaises
    \/ WritesOut
    \/ WritesErr
    \/ Exits
    \/ Killed
    \/ ReadsOut
    \/ ReadsErr

Spec == Init /\ [][Next]_vars

\* Scheduling: the caller's thread, once inside __wait, goes on running (a
\* bounded get() returns or times out, the callback returns); each started
\* stream_reader thread goes on running; a running child ends at some point.
\* Nothing obliges the caller to call run(), a signal to arrive or the user to
\* interrupt.
Fairness ==
    /\ WF_vars(LoopTest)
    /\ WF_vars(GetUnit)
    /\ WF_vars(GetTimeout)
    /\ WF_vars(CallbackReturns)
    /\ WF_vars(Resolve)
    /\ WF_vars(ErrGet)
    /\ WF_vars(ErrGetRaises)
    /\ WF_vars(Exits)
    /\ \A r \in Runs : WF_vars(StreamReaderOut(r)) /\ WF_vars(StreamReaderErr(r))

FairSpec == Spec /\ Fairness

\* The runs in which every spawn succeeds, every child ends by exiting and
\* nobody interrupts the caller, under the same scheduling.
LiveNext ==
    \/ Run
    \/ SudoRun
    \/ Spawn
    \/ LoopTest
    \/ GetUnit
    \/ CallbackReturns
    \/ GetTimeout
    \/ Resolve
    \/ ErrGet
    \/ ErrGetRaises
    \/ WritesOut
    \/ WritesErr
    \/ Exits
    \/ ReadsOut
    \/ ReadsErr

LiveSpec == Init /\ [][LiveNext]_vars /\ Fairness

---------------------------------------------------------------------------
\* __process_event exercised alone: a freshly constructed runner is handed up
\* to MaxFeed chunks of any kind, one call each; consumed records the chunks and
\* outcome what the last call returned.
FeedChunk(k) ==
    /\ Len(consumed) < MaxFeed
    /\ LET u  == Unit(0, k, Len(consumed) + 1)
           pe == process_event(self, u)
       IN  /\ self' = pe.self
           /\ consumed' = Append(consumed, u)
           /\ outcome' = IF pe.rval THEN "recognized" ELSE "not recognized"
    /\ UNCHANGED <<child, returncode, pc, call, calls, runs, thread_stream, retval,
                   launched, killed, polled, written, cbLog, errAtExit, counts>>

ExtractorNext == \E k \in ChunkKinds : FeedChunk(k)

ExtractorSpec == Init /\ [][ExtractorNext]_vars

---------------------------------------------------------------------------
\* Properties.

Terminal(st) == st \in {DONE, FAILED, CANCELLED}

\* The last run() reached the end of __wait: it returned, or its read of the
\* stderr queue raised Empty.
WaitEnded == pc = "idle" /\ outcome \in {"returned", "Empty"}

NonZero(rc) == rc # None /\ rc # PyInt(0)

Recognized(u) == process_event(init(TRUE), u).rval

\* C1, as stated: the lifecycle state changes only READY -> RUNNING on a
\* successful spawn, RUNNING -> DONE/FAILED/CANCELLED at the exit of the loop, and
\* DONE/FAILED/CANCELLED -> READY by the reset of a fresh run().
C1_OnlyClaimedTransitions ==
    [][ \/ self'.state = self.state
        \/ self.state = READY /\ self'.state = RUNNING /\ pc = "spawn" /\ pc' = "loop"
        \/ self.state = RUNNING /\ Terminal(self'.state) /\ pc = "resolve"
        \/ Terminal(self.state) /\ self'.state = READY /\ pc = "idle" /\ pc' = "spawn"
      ]_vars

\* C1, amended: the same transitions, and READY -> FAILED when the spawn raises;
\* the step that follows the loop always takes RUNNING to a terminal state.
C1_Transitions ==
    [][ /\ \/ self'.state = self.state
           \/ self.state = READY /\ self'.state = RUNNING /\ pc = "spawn" /\ pc' = "loop"
           \/ self.state = READY /\ self'.state = FAILED /\ pc = "spawn"
                 /\ outcome' = "OSError"
           \/ self.state = RUNNING /\ Terminal(self'.state) /\ pc = "resolve"
           \/ Terminal(self.state) /\ self'.state = READY /\ pc = "idle" /\ pc' = "spawn"
        /\ (pc = "resolve" /\ pc' # "resolve")
              => self.state = RUNNING /\ Terminal(self'.state)
      ]_vars

\* C1, witness: a second run() has ended DONE on a runner reset from an earlier run.
C1_Witness ==
    runs = 2 /\ pc = "idle" /\ outcome = "returned" /\ self.state = DONE

\* C2, as stated: when run() has returned after the child exited, self.stdout
\* holds every line the child wrote to its standard output.
C2_NoLineDropped ==
    (pc = "idle" /\ outcome = "returned" /\ polled # None) => self.stdout = written

\* C3: a run whose child is found to have exited with status 0 returns 0, with
\* state DONE and progress 100, whatever markers were consumed.
C3_SuccessIsDone ==
    (WaitEnded /\ polled = PyInt(0))
        => /\ outcome = "returned" /\ retval = PyInt(0)
           /\ self.state = DONE
           /\ self.progress = 100

\* C3, witness: such a run whose last consumed unit was a progress marker of 42.
C3_Witness ==
    /\ WaitEnded /\ polled = PyInt(0)
    /\ consumed # <<>> /\ consumed[Len(consumed)].k = "P42"
    /\ self.progress = 100

\* C4, as stated: a non-zero exit status gives FAILED, and self.stderr holds the
\* content the stderr queue had when the loop exited.
C4_StderrHoldsAvailable ==
    (WaitEnded /\ NonZero(polled))
        => /\ self.state = FAILED
           /\ errAtExit # <<>> => self.stderr = errAtExit

\* C4, amended: a non-zero exit status gives FAILED, and when the stderr queue
\* held units at the exit of the loop, run() returns with self.stderr holding the
\* oldest of them alone.
C4_StderrHoldsFirst ==
    (WaitEnded /\ NonZero(polled))
        => /\ self.state = FAILED
           /\ errAtExit # <<>>
                 => outcome = "returned" /\ self.stderr = <<Head(errAtExit)>>

\* C4, witness: a failed run whose stderr queue held two units at the exit of the loop.
C4_Witness ==
    /\ WaitEnded /\ NonZero(polled) /\ self.state = FAILED
    /\ Len(errAtExit) = 2 /\ self.stderr = <<errAtExit[1]>>

\* C5, as stated: a non-zero exit status with nothing read from the stderr queue
\* still makes run() return that status, with state FAILED and stderr empty.
C5_NonZeroExitReturns ==
    (WaitEnded /\ NonZero(polled) /\ self.stderr = <<>>)
        => outcome = "returned" /\ retval = polled /\ self.state = FAILED

\* C6: when poll() after the loop finds no exit status, run() returns None with
\* state CANCELLED.
C6_UnavailableIsCancelled ==
    (WaitEnded /\ polled = None)
        => outcome = "returned" /\ retval = None /\ self.state = CANCELLED

\* C6, witness: a run that ended with no exit status, its child still running.
C6_Witness ==
    /\ WaitEnded /\ polled = None /\ self.state = CANCELLED
    /\ child[runs].st = "running"

\* C7, as stated: a child killed by a signal while run() is in flight ends the
\* run in state CANCELLED.
C7_KilledIsCancelled ==
    (WaitEnded /\ killed) => self.state = CANCELLED

FromThisRun(seq) == \A i \in 1..Len(seq) : seq[i].run = runs

\* C9: after _run_init every per-run attribute has its default and the two
\* queues are new and empty; and all through the run, stdout, stderr and the
\* queues hold units of this run's child only, and a start time other than the
\* default comes from a unit this run consumed.
C9_RunStartsClean ==
    /\ pc = "spawn"
          => /\ self.state = READY /\ self.nmap_rc = PyInt(0 - 1)
             /\ self.progress = 0 /\ self.etc = 0
             /\ self.starttime = 0 /\ self.endtime = 0
             /\ self.elapsed = "" /\ self.summary = "" /\ self.nmap_version = ""
             /\ self.stdout = <<>> /\ self.stderr = <<>>
             /\ self.io_queue.items = <<>> /\ self.ioerr_queue.items = <<>>
             /\ \A r \in Runs : /\ child[r].outDst # self.io_queue.id
                                /\ child[r].errDst # self.ioerr_queue.id
    /\ FromThisRun(self.stdout) /\ FromThisRun(self.stderr)
    /\ FromThisRun(self.io_queue.items) /\ FromThisRun(self.ioerr_queue.items)
    /\ FromThisRun(thread_stream)
    /\ self.starttime # 0 => \E i \in 1..Len(consumed) : consumed[i].k = "RUN"

\* C9, witness: the second run has consumed a unit while the first run's child
\* is still running and its stdout thread still has a line to deliver.
C9_Witness ==
    /\ runs = 2 /\ self.stdout # <<>>
    /\ child[1].st = "running" /\ child[1].outPipe # <<>>

\* C10, as stated: outside a call the elevation prefix is clear, and a plain
\* run() builds and launches a command line without it.
C10_PrefixCleared ==
    /\ pc = "idle" => self.sudo_run = ""
    /\ call = "run"
          => /\ self.nmap_command_line[1] = ""
             /\ launched # <<>> => launched[1] # SudoPrefix

\* C11: when the spawn has raised OSError, the state is FAILED, the run has no
\* child and no stream_reader thread, no unit was pulled from the queue, the
\* callback was not called, and stdout and stderr are empty.
C11_SpawnFailure ==
    (pc = "idle" /\ outcome = "OSError")
        => /\ self.state = FAILED
           /\ child[runs] = NoChild /\ launched = <<>>
           /\ \A r \in Runs : /\ child[r].outDst # self.io_queue.id
                              /\ child[r].errDst # self.ioerr_queue.id
           /\ consumed = <<>> /\ thread_stream = <<>> /\ cbLog = <<>>
           /\ self.stdout = <<>> /\ self.stderr = <<>>

\* C11, witness: the spawn of a second run raised while the first run's child
\* is running and its stdout thread still has a line to deliver.
C11_Witness ==
    /\ pc = "idle" /\ outcome = "OSError" /\ self.state = FAILED
    /\ runs = 2 /\ child[1].st = "running" /\ child[1].outPipe # <<>>

\* The START_ELEMENT events of a chunk that reach the extractor's loop.
Delivered(c) == IF c.feedErr THEN <<>> ELSE c.elems

\* A progress marker carrying both attributes.
WellFormedProgress(e) ==
    e.name = "taskprogress" /\ {"percent", "etc"} \subseteq DOMAIN e.attrs

RECURSIVE AllProgress(_)
AllProgress(seq) ==
    IF seq = <<>> THEN <<>>
    ELSE SelectSeq(Delivered(Chunk(Head(seq).k)), WellFormedProgress)
            \o AllProgress(Tail(seq))

Snapshot(s) ==
    <<s.progress, s.etc, s.starttime, s.nmap_version, s.endtime, s.elapsed, s.summary>>

\* A marker element lacking one of the attributes the extractor reads from it.
MarkerLacks(e) ==
    CASE e.name = "taskprogress" -> ~({"percent", "etc"} \subseteq DOMAIN e.attrs)
      [] e.name = "nmaprun"      -> ~({"start", "version"} \subseteq DOMAIN e.attrs)
      [] e.name = "finished"     -> ~({"time", "elapsed", "summary"} \subseteq DOMAIN e.attrs)
      [] OTHER                   -> FALSE

\* Text the parser rejects, text that ends inside a tag, or a marker lacking an
\* attribute.
Malformed(c) ==
    \/ c.feedErr
    \/ c.closeErr /\ c.elems = <<>>
    \/ \E i \in 1..Len(c.elems) : MarkerLacks(c.elems[i])

\* C13, as stated: a call of the extractor on a malformed or truncated chunk
\* returns False and leaves every field of the snapshot as it was.
C13_MalformedLeavesSnapshot ==
    [][ (consumed' # consumed /\ Malformed(Chunk(consumed'[Len(consumed')].k)))
            => Snapshot(self') = Snapshot(self) /\ outcome' = "not recognized"
      ]_vars

\* has_terminated(): state is DONE, FAILED or CANCELLED.
has_terminated(s) == s.state = DONE \/ s.state = FAILED \/ s.state = CANCELLED

\* C14, as stated: whenever has_terminated() is true, the child of the latest
\* run is not running.
C14_TerminatedNotRunning ==
    (has_terminated(self) /\ runs \in Runs) => child[runs].st # "running"

\* No pipe holds a line: no writer is blocked and nothing waits to be read.
PipesDrained == \A r \in Runs : child[r].outPipe = <<>> /\ child[r].errPipe = <<>>

\* C15: under fair scheduling the pipes end up drained for good, whatever the
\* loop is doing, so no child stays blocked on a full pipe; and a run that is
\* RUNNING reaches a terminal state with run() over.
C15_DeadlockFree ==
    /\ <>[]PipesDrained
    /\ (self.state = RUNNING) ~> (has_terminated(self) /\ pc = "idle")

\* C15, witness: a run is over whose child filled its stderr pipe, wrote to
\* its stdout and exited.
C15_Witness ==
    /\ pc = "idle" /\ has_terminated(self) /\ runs = 1
    /\ child[1].st = "exited" /\ written # <<>> /\ nErr >= PipeCap

IsPrefix(a, b) == Len(a) <= Len(b) /\ SubSeq(b, 1, Len(a)) = a

\* C16: self.stdout is a prefix of the lines the run's child has written to its
\* stdout, in order; it holds each unit pulled from the queue once, recognized or
\* not, the unit being handled by the callback excepted, and nothing else.
C16_StdoutIsPrefix ==
    /\ IsPrefix(self.stdout, written)
    /\ IF pc = "callback"
       THEN thread_stream # <<>> /\ consumed = Append(self.stdout, thread_stream[1])
       ELSE self.stdout = consumed

\* C16, witness: the loop polls an empty queue after it has consumed an
\* unrecognized unit and a recognized one.
C16_Witness ==
    /\ pc = "get" /\ self.io_queue.items = <<>> /\ thread_stream # <<>>
    /\ Len(self.stdout) = 2
    /\ ~Recognized(self.stdout[1]) /\ Recognized(self.stdout[2])

\* C17: in the states READY, RUNNING, DONE and CANCELLED self.stderr is empty.
C17_StderrOnlyOnFailure ==
    self.state \in {READY, RUNNING, DONE, CANCELLED} => self.stderr = <<>>

\* C17, witness: a run has ended DONE while a line its child wrote to stderr
\* sits in the stderr queue.
C17_Witness ==
    /\ pc = "idle" /\ outcome = "returned" /\ self.state = DONE
    /\ self.ioerr_queue.items # <<>> /\ self.stderr = <<>>

\* C18: a sudo_run() call that ends with KeyError or EnvironmentError leaves the
\* runner (state, exit code, snapshot, stdout, stderr, elevation prefix, queues)
\* and the children as they were, and starts no run.
C18_FailedPreludeChangesNothing ==
    [][ (calls' # calls /\ outcome' \in {"KeyError", "EnvironmentError"})
            => self' = self /\ child' = child /\ runs' = runs /\ pc' = pc
      ]_vars

\* C18, witness: sudo_run() has failed in its lookups on a runner that holds
\* the results of a finished run.
C18_Witness ==
    /\ outcome \in {"KeyError", "EnvironmentError"} /\ call = "sudo_run"
    /\ self.state = DONE /\ self.progress = 100 /\ self.stdout # <<>>
    /\ self.nmap_rc = PyInt(0)

\* The snapshot holds what the markers of unit u carry: for each marker element
\* with all its attributes that is the last of its name in the chunk.
Reflects(s, u) ==
    LET es == Delivered(Chunk(u.k))
    IN  \A i \in 1..Len(es) :
           LET e == es[i]
           IN  (~MarkerLacks(e) /\ \A j \in (i + 1)..Len(es) : es[j].name # e.name)
                  => CASE e.name = "taskprogress" ->
                              s.progress = e.attrs.percent /\ s.etc = e.attrs.etc
                       [] e.name = "nmaprun" ->
                              s.starttime = e.attrs.start /\ s.nmap_version = e.attrs.version
                       [] e.name = "finished" ->
                              /\ s.endtime = e.attrs.time /\ s.elapsed = e.attrs.elapsed
                              /\ s.summary = e.attrs.summary
                       [] OTHER -> TRUE

\* C19: while the callback runs, the state is RUNNING, the unit passed to it is
\* the one last pulled, its marker is already in the snapshot, and self.stdout
\* holds the units pulled before it, in order, and not that unit.
C19_CallbackBetween ==
    pc = "callback"
        => /\ self.state = RUNNING
           /\ thread_stream # <<>> /\ cbLog # <<>>
           /\ cbLog[Len(cbLog)] = thread_stream[1]
           /\ Recognized(thread_stream[1])
           /\ Reflects(self, thread_stream[1])
           /\ consumed = Append(self.stdout, thread_stream[1])

\* C19, witness: the callback runs for a progress marker of 42 pulled after one
\* other unit.
C19_Witness ==
    /\ pc = "callback" /\ Len(consumed) = 2 /\ consumed[2].k = "P42"
    /\ self.stdout = <<consumed[1]>> /\ self.progress = 42 /\ self.etc = 90

\* C20, as stated: whenever no call is in progress, rc is 0 exactly when the state
\* is DONE.
C20_RcZeroIffDone ==
    pc = "idle" => (self.nmap_rc = PyInt(0) <=> self.state = DONE)

====
